---- MODULE Spec2Model ----
\* Feed ingestion and polling of SUPRSS: the Feed health methods
\* (Feed.model.js), the article store with its unique indexes
\* (Collection.model.js, Article part) and the feed controller handlers
\* addFeed, updateFeed, refreshFeed, refreshAllFeeds and the reset-errors route.
\*
\* Time is counted in minutes (the code's Date.now() / 60000).  Every request is
\* made by a user who owns the collection, so the permission checks pass.
EXTENDS Integers, Sequences, FiniteSets, TLC

VARIABLES
  now,       \* the clock read by Date.now(), in minutes
  feeds,     \* Feed collection: _id -> document
  articles,  \* Article collection: a set of documents
  colls,     \* Collection collection: _id -> document
  last,      \* the last HTTP request answered, with its response
  procs,     \* the requests in flight (their position and local variables)
  limiter,   \* the closure userRateLimit returned to POST /:id/refresh
  passed     \* user -> the times at which the limiter called next()

vars == <<now, feeds, articles, colls, last, procs, limiter, passed>>

-----------------------------------------------------------------------------
\* Bounds of the model

MaxColls == 1
NumIds == 2
MaxItems == 3
MaxNow == 1440
MaxErrors == 5
MaxFetches == 1
MaxRuns == 2
NumProcs == 2
NumSchedFeeds == 11
MaxOutageFeeds == 2
MaxStoreItems == 1
NumGroups == 2
NumMemberFeeds == 2
MaxMembers == 2
NumUsers == 2
MaxLimit == 2
MaxWindow == 2
LimitHorizon == 2
MaxPassed == 11

\* Program constants

BackoffCapMinutes == 1440
DisableAfterAttempts == 5
FindLimit == 10
DefaultUpdateFrequency == 60
AddFeedItemLimit == 20
RefreshItemLimit == 50
RefreshAllItemLimit == 20
RefreshMaxRequests == 10
RefreshWindowMinutes == 1

-----------------------------------------------------------------------------
\* Values

FeedIds == {1}
CollIds == 1..MaxColls
Statuses == {"active", "inactive", "error", "pending"}
Frequencies == {30, DefaultUpdateFrequency}

\* 0 stands for an absent (undefined / null) link or guid.
Ids == 0..NumIds
Items == [link : Ids, guid : Ids]

\* What parser.parseURL gives: a document with its items, or an error thrown.
FetchFailed == [ok |-> FALSE, items |-> <<>>]
Fetched(doc) == [ok |-> TRUE, items |-> doc]

Min(a, b) == IF a <= b THEN a ELSE b

RECURSIVE Pow2(_)
Pow2(k) == IF k = 0 THEN 1 ELSE 2 * Pow2(k - 1)

\* The numbers of stats.averageArticlesPerFetch, kept as exact fractions in
\* lowest terms (the code holds them as doubles).
RECURSIVE GCD(_, _)
GCD(a, b) == IF b = 0 THEN a ELSE GCD(b, a % b)

Ratio(n, d) == [num |-> n \div GCD(n, d), den |-> d \div GCD(n, d)]

Take(s, n) == SubSeq(s, 1, Min(n, Len(s)))

Range(s) == {s[i] : i \in DOMAIN s}

RECURSIVE SeqsUpTo(_, _)
SeqsUpTo(S, n) ==
  IF n = 0 THEN {<<>>}
  ELSE LET shorter == SeqsUpTo(S, n - 1)
       IN shorter \cup {Append(s, x) : s \in {t \in shorter : Len(t) = n - 1}, x \in S}

Perms(S) == {s \in [1..Cardinality(S) -> S] : Range(s) = S}

-----------------------------------------------------------------------------
\* Article store (Article schema): link is required and unique, guid and
\* contentHash are unique and sparse.

StoredLink(item) == IF item.link # 0 THEN item.link ELSE item.guid

StoredGuid(item) == IF item.guid # 0 THEN item.guid ELSE item.link

\* sha256 of title + content + link; the items of the model share their title
\* and content, so the digest is an injective code of the link.
ContentHash(link) == 2 * link + 1

\* The document handed to Article.create (hooks = TRUE: pre('save') computes the
\* hash) or to Article.insertMany (hooks = FALSE: no save middleware runs).
\* cs is the collections array given to it; nobody has read a new article.
ArticleDoc(item, f, cs, hooks) ==
  [link |-> StoredLink(item),
   guid |-> StoredGuid(item),
   feed |-> f,
   collections |-> cs,
   readBy |-> {},
   hash |-> IF hooks /\ StoredLink(item) # 0 THEN ContentHash(StoredLink(item)) ELSE 0]

Valid(a) == a.link # 0

\* The store with the unique index on link alone.
DuplicateByLinkOnly(arts, a) == \E b \in arts : b.link = a.link

\* The unique index on link and the unique sparse indexes on guid and
\* contentHash refuse a document that repeats a stored key.
Duplicate(arts, a) ==
  \E b \in arts :
    \/ b.link = a.link
    \/ a.guid # 0 /\ b.guid = a.guid
    \/ a.hash # 0 /\ b.hash = a.hash

\* Article.findOne({ link }) of addFeed; an undefined link is sent as null and
\* matches the articles that have no link.
FindByLink(arts, item) == \E b \in arts : b.link = item.link

\* Article.findOne({ $or: [{ link }, { guid }] }) of the two refresh handlers.
FindByLinkOrGuid(arts, item) ==
  \E b \in arts : b.link = item.link \/ b.guid = item.guid

\* Article.create: validation, then the unique indexes.
CreateError(arts, a) ==
  IF ~Valid(a) THEN "validation"
  ELSE IF Duplicate(arts, a) THEN "duplicate"
  ELSE "none"

\* Article.insertMany (ordered): every document is validated first; the insert
\* stops at the first duplicate key, keeping what was inserted before it.
RECURSIVE InsertOrdered(_, _, _)
InsertOrdered(arts, batch, i) ==
  IF i > Len(batch) THEN [arts |-> arts, error |-> "none"]
  ELSE IF Duplicate(arts, batch[i]) THEN [arts |-> arts, error |-> "duplicate"]
  ELSE InsertOrdered(arts \cup {batch[i]}, batch, i + 1)

InsertMany(arts, batch) ==
  IF \E i \in DOMAIN batch : ~Valid(batch[i])
  THEN [arts |-> arts, error |-> "validation"]
  ELSE InsertOrdered(arts, batch, 1)

-----------------------------------------------------------------------------
\* Feed health (Feed.model.js)

NewFeed(url, c, freq, t) ==
  [url |-> url,
   collections |-> <<c>>,
   updateFrequency |-> freq,
   lastFetchedAt |-> -1,
   nextFetchAt |-> t,
   status |-> "active",
   isActive |-> TRUE,
   attempts |-> 0,
   totalArticles |-> 0,
   fetchCount |-> 0,
   errorCount |-> 0,
   averageArticlesPerFetch |-> Ratio(0, 1)]

\* markAsFetched without lastError = undefined: a faulty variant of
\* MarkAsFetched.
MarkAsFetchedKeepingError(fd, articlesCount, t) ==
  [fd EXCEPT !.lastFetchedAt = t,
             !.nextFetchAt = t + fd.updateFrequency,
             !.status = "active",
             !.fetchCount = @ + 1,
             !.totalArticles = @ + articlesCount]

\* The mean is recomputed only inside if (articlesCount > 0), from the
\* fetchCount already incremented.
MarkAsFetched(fd, articlesCount, t) ==
  LET fetchCount == fd.fetchCount + 1
      avg == fd.averageArticlesPerFetch
  IN [fd EXCEPT !.lastFetchedAt = t,
                !.nextFetchAt = t + fd.updateFrequency,
                !.status = "active",
                !.fetchCount = fetchCount,
                !.totalArticles = IF articlesCount > 0 THEN @ + articlesCount ELSE @,
                !.averageArticlesPerFetch =
                   IF articlesCount > 0
                   THEN Ratio(avg.num * (fetchCount - 1) + articlesCount * avg.den,
                              avg.den * fetchCount)
                   ELSE @,
                !.attempts = 0]

\* The delay doubled once too few: a faulty variant of BackoffMinutes.
BackoffMinutesOneShort(freq, attempts) ==
  Min(freq * Pow2(attempts - 1), BackoffCapMinutes)

BackoffMinutes(freq, attempts) ==
  Min(freq * Pow2(attempts), BackoffCapMinutes)

\* markAsError that also forgets the last successful fetch: a faulty variant
\* of MarkAsError.
MarkAsErrorForgettingFetch(fd, t) ==
  [fd EXCEPT !.status = "error",
             !.attempts = @ + 1,
             !.errorCount = @ + 1,
             !.nextFetchAt = t + BackoffMinutes(fd.updateFrequency, fd.attempts + 1),
             !.isActive = IF fd.attempts + 1 >= DisableAfterAttempts THEN FALSE ELSE @,
             !.lastFetchedAt = -1]

MarkAsError(fd, t) ==
  LET attempts == fd.attempts + 1
  IN [fd EXCEPT !.status = "error",
                !.attempts = attempts,
                !.errorCount = @ + 1,
                !.nextFetchAt = t + BackoffMinutes(fd.updateFrequency, attempts),
                !.isActive = IF attempts >= DisableAfterAttempts THEN FALSE ELSE @]

\* resetErrors without status = 'active': a faulty variant of ResetErrors.
ResetErrorsKeepingStatus(fd, t) ==
  [fd EXCEPT !.attempts = 0, !.nextFetchAt = t]

ResetErrors(fd, t) ==
  [fd EXCEPT !.status = "active", !.attempts = 0, !.nextFetchAt = t]

\* The filter without its isActive term: a faulty variant of NeedsFetch.
NeedsFetchIgnoringActive(fd, t) ==
  fd.status # "error" /\ fd.nextFetchAt <= t

\* The filter of Feed.findFeedsToUpdate.
NeedsFetch(fd, t) ==
  fd.isActive /\ fd.status # "error" /\ fd.nextFetchAt <= t

\* find(...).limit(10) carries no sort: any FindLimit of the matching feeds may
\* come back.
FindFeedsToUpdate(fds, t) ==
  LET due == {f \in DOMAIN fds : NeedsFetch(fds[f], t)}
  IN {S \in SUBSET due : Cardinality(S) = Min(FindLimit, Cardinality(due))}

-----------------------------------------------------------------------------
\* Collection statistics (Collection.updateStats)

NewCollection ==
  [feeds |-> <<>>, totalFeeds |-> 0, activeFeeds |-> 0,
   totalArticles |-> 0, unreadArticles |-> 0]

UpdateStats(cd, fds, arts) ==
  LET members == Range(cd.feeds) \cap DOMAIN fds
      stored == {a \in arts : a.feed \in Range(cd.feeds)}
  IN [cd EXCEPT !.totalFeeds = Cardinality(members),
                !.activeFeeds = Cardinality({f \in members : fds[f].isActive}),
                !.totalArticles = Cardinality(stored),
                !.unreadArticles = Cardinality({a \in stored : a.readBy = {}})]

RECURSIVE UpdateStatsOf(_, _, _, _, _)
UpdateStatsOf(cs, ids, i, fds, arts) ==
  IF i > Len(ids) THEN cs
  ELSE UpdateStatsOf(
         IF ids[i] \in DOMAIN cs
         THEN [cs EXCEPT ![ids[i]] = UpdateStats(cs[ids[i]], fds, arts)]
         ELSE cs,
         ids, i + 1, fds, arts)

-----------------------------------------------------------------------------
\* The state after start-up: an empty database, no request in flight.

Idle == [pc |-> "idle"]

\* What a request leaves behind: its response and the domain events it
\* emitted.  refreshFeed and refreshAllFeeds answer over HTTP and emit nothing,
\* so events stays empty.
NoRequest ==
  [op |-> "none", feed |-> 0, error |-> "none", newArticles |-> 0,
   selected |-> {}, succeeded |-> {}, failed |-> {}, events |-> {}]

Response(op, f, error, n) ==
  [NoRequest EXCEPT !.op = op, !.feed = f, !.error = error, !.newArticles = n]

Users == 1..NumUsers

\* userRateLimit(maxRequests, windowMinutes): the closure holds its two
\* parameters and a Map, empty at first, from user to the times kept.
NewRateLimit(maxRequests, windowMinutes) ==
  [maxRequests |-> maxRequests, windowMinutes |-> windowMinutes,
   requests |-> [u \in Users |-> <<>>]]

Init ==
  /\ limiter = NewRateLimit(RefreshMaxRequests, RefreshWindowMinutes)
  /\ passed = [u \in Users |-> <<>>]
  /\ now = 0
  /\ feeds = <<>>
  /\ articles = {}
  /\ colls = <<>>
  /\ last = NoRequest
  /\ procs = [p \in 1..NumProcs |-> Idle]

Quiet == \A p \in DOMAIN procs : procs[p].pc = "idle"

Put(store, id, doc) ==
  [k \in DOMAIN store \cup {id} |-> IF k = id THEN doc ELSE store[k]]

-----------------------------------------------------------------------------
\* Handlers, each run from its request to its response.

CreateCollection(c) ==
  /\ Quiet
  /\ c \notin DOMAIN colls
  /\ colls' = Put(colls, c, NewCollection)
  /\ last' = Response("createCollection", 0, "none", 0)
  /\ UNCHANGED <<now, feeds, articles, procs, limiter, passed>>

\* The items of addFeed that pass its link-only existence check.
AddFeedBatch(arts, doc, f, c) ==
  LET items == Take(doc, AddFeedItemLimit)
      New(item) == ~FindByLink(arts, item)
      fresh == SelectSeq(items, New)
  IN [i \in DOMAIN fresh |-> ArticleDoc(fresh[i], f, <<c>>, FALSE)]

\* addFeed for a new URL.  A failed fetch creates nothing; an insert error
\* leaves the feed created (the catch answers 400 without undoing it).
AddFeed(url, c, freq, fetched) ==
  /\ Quiet
  /\ c \in DOMAIN colls
  /\ url \notin DOMAIN feeds
  /\ IF ~fetched.ok
     THEN /\ last' = Response("addFeed", 0, "fetch", 0)
          /\ UNCHANGED <<feeds, articles, colls>>
     ELSE LET created == NewFeed(url, c, freq, now)
              batch == AddFeedBatch(articles, fetched.items, url, c)
              ins == IF Len(batch) > 0 THEN InsertMany(articles, batch)
                     ELSE [arts |-> articles, error |-> "none"]
              saved == IF Len(batch) > 0 /\ ins.error = "none"
                       THEN [created EXCEPT !.totalArticles = Len(batch),
                                            !.lastFetchedAt = now,
                                            !.nextFetchAt = now + freq]
                       ELSE created
          IN /\ feeds' = Put(feeds, url, saved)
             /\ colls' = [colls EXCEPT ![c].feeds = Append(@, url)]
             /\ articles' = ins.arts
             /\ last' = Response("addFeed", url, ins.error, Len(batch))
  /\ UNCHANGED <<now, procs, limiter, passed>>

Without(seq, x) == SelectSeq(seq, LAMBDA y : y # x)

\* addFeed for a URL that is stored already: 409 when the feed is in the
\* collection, otherwise the collection is pushed to the feed and the feed to
\* the collection.
AttachFeed(f, c) ==
  /\ Quiet
  /\ c \in DOMAIN colls
  /\ f \in DOMAIN feeds
  /\ IF c \in Range(feeds[f].collections)
     THEN /\ last' = Response("addExisting", f, "conflict", 0)
          /\ UNCHANGED <<feeds, colls>>
     ELSE /\ feeds' = [feeds EXCEPT ![f].collections = Append(@, c)]
          /\ colls' = [colls EXCEPT ![c].feeds = Append(@, f)]
          /\ last' = Response("addExisting", f, "none", 0)
  /\ UNCHANGED <<now, articles, procs, limiter, passed>>

\* addFeed for a stored URL again, one step for each await, for the requests
\* that overlap.  Collection.findById, Feed.findOne and the includes test:
AttachLoad(p, f, c) ==
  /\ procs[p].pc = "idle"
  /\ c \in DOMAIN colls
  /\ f \in DOMAIN feeds
  /\ IF c \in Range(feeds[f].collections)
     THEN /\ last' = Response("addExisting", f, "conflict", 0)
          /\ UNCHANGED procs
     ELSE /\ procs' = [procs EXCEPT ![p] = [pc |-> "attachSaveFeed", feed |-> f, coll |-> c]]
          /\ UNCHANGED last
  /\ UNCHANGED <<now, feeds, articles, colls, limiter, passed>>

\* feed.collections.push(collectionId); feed.save(): the push reaches the
\* stored array whatever it holds by then; the save of a feed that was removed
\* meanwhile rejects.
AttachSaveFeed(p) ==
  /\ procs[p].pc = "attachSaveFeed"
  /\ LET f == procs[p].feed
     IN IF f \in DOMAIN feeds
        THEN /\ feeds' = [feeds EXCEPT ![f].collections = Append(@, procs[p].coll)]
             /\ procs' = [procs EXCEPT ![p].pc = "attachSaveColl"]
             /\ UNCHANGED last
        ELSE /\ last' = Response("addExisting", f, "storage", 0)
             /\ procs' = [procs EXCEPT ![p] = Idle]
             /\ UNCHANGED feeds
  /\ UNCHANGED <<now, articles, colls, limiter, passed>>

\* collection.feeds.push(feed._id); collection.save(); the 200 response.
AttachSaveColl(p) ==
  /\ procs[p].pc = "attachSaveColl"
  /\ colls' = [colls EXCEPT ![procs[p].coll].feeds = Append(@, procs[p].feed)]
  /\ last' = Response("addExisting", procs[p].feed, "none", 0)
  /\ procs' = [procs EXCEPT ![p] = Idle]
  /\ UNCHANGED <<now, feeds, articles, limiter, passed>>

\* The feeds whose faulty removal leaves the feed stored: a variant of
\* RemoveFeedResult that never calls feed.remove().
RemoveFeedKeepingFeed(fds, arts, cs, f, c) ==
  [feeds |-> [fds EXCEPT ![f].collections = Without(@, c)],
   colls |-> [cs EXCEPT ![c].feeds = Without(@, f)],
   articles |-> {IF a.feed = f THEN [a EXCEPT !.collections = Without(@, c)] ELSE a :
                   a \in arts}]

\* removeFeed: the collection leaves the feed's list and the feed the
\* collection's; a feed left in no collection is removed, and its pre('remove')
\* hook pulls it from every collection and deletes its articles; the articles
\* that remain lose the collection.
RemoveFeedResult(fds, arts, cs, f, c) ==
  LET remaining == Without(fds[f].collections, c)
      detached == [cs EXCEPT ![c].feeds = Without(@, f)]
  IN IF remaining = <<>>
     THEN [feeds |-> [k \in DOMAIN fds \ {f} |-> fds[k]],
           colls |-> [k \in DOMAIN detached |->
                        [detached[k] EXCEPT !.feeds = Without(@, f)]],
           articles |-> {a \in arts : a.feed # f}]
     ELSE [feeds |-> [fds EXCEPT ![f].collections = remaining],
           colls |-> detached,
           articles |-> {IF a.feed = f
                         THEN [a EXCEPT !.collections = Without(@, c)]
                         ELSE a : a \in arts}]

\* removeFeed: DELETE /:id with the collection in the body, its awaits run
\* without another request in between.
RemoveFeedRequest(f, c) ==
  /\ c \in DOMAIN colls
  /\ f \in DOMAIN feeds
  /\ LET r == RemoveFeedResult(feeds, articles, colls, f, c)
     IN /\ feeds' = r.feeds
        /\ colls' = r.colls
        /\ articles' = r.articles
  /\ last' = Response("removeFeed", f, "none", 0)
  /\ UNCHANGED <<now, procs, limiter, passed>>

\* removeFeed while no other request is running.
RemoveFeed(f, c) == Quiet /\ RemoveFeedRequest(f, c)

\* Collection.updateMany({ _id: { $in: ids } }, { $inc: { 'stats.unreadArticles': d } })
IncUnread(cs, ids, d) ==
  [c \in DOMAIN cs |->
     IF c \in Range(ids) THEN [cs[c] EXCEPT !.unreadArticles = @ + d] ELSE cs[c]]

\* article.markAsRead(userId): a user who has not read the article joins
\* readBy and every collection of the article counts one unread article less.
MarkAsRead(a, u) ==
  /\ Quiet
  /\ a \in articles
  /\ IF u \notin a.readBy
     THEN /\ articles' = (articles \ {a}) \cup {[a EXCEPT !.readBy = @ \cup {u}]}
          /\ colls' = IncUnread(colls, a.collections, -1)
     ELSE UNCHANGED <<articles, colls>>
  /\ last' = Response("markAsRead", a.feed, "none", 0)
  /\ UNCHANGED <<now, feeds, procs, limiter, passed>>

\* article.markAsUnread(userId): a user who had read the article leaves readBy
\* and every collection of the article counts one unread article more.
MarkAsUnread(a, u) ==
  /\ Quiet
  /\ a \in articles
  /\ IF u \in a.readBy
     THEN /\ articles' = (articles \ {a}) \cup {[a EXCEPT !.readBy = @ \ {u}]}
          /\ colls' = IncUnread(colls, a.collections, 1)
     ELSE UNCHANGED <<articles, colls>>
  /\ last' = Response("markAsUnread", a.feed, "none", 0)
  /\ UNCHANGED <<now, feeds, procs, limiter, passed>>

\* updateFeed: every key of the body but url, addedBy, _id and collections is
\* copied to the document.  The keys followed here are isActive (also set by
\* the activate and deactivate routes), updateFrequency and status; a key the
\* body leaves out is a key given its present value.
UpdateFeed(f, updates) ==
  /\ Quiet
  /\ f \in DOMAIN feeds
  /\ feeds' = [feeds EXCEPT ![f].isActive = updates.isActive,
                            ![f].updateFrequency = updates.updateFrequency,
                            ![f].status = updates.status]
  /\ last' = Response("updateFeed", f, "none", 0)
  /\ UNCHANGED <<now, articles, colls, procs, limiter, passed>>

\* POST /:id/reset-errors
ResetErrorsRoute(f) ==
  /\ Quiet
  /\ f \in DOMAIN feeds
  /\ feeds' = [feeds EXCEPT ![f] = ResetErrors(@, now)]
  /\ last' = Response("resetErrors", f, "none", 0)
  /\ UNCHANGED <<now, articles, colls, procs, limiter, passed>>

\* The items of refreshFeed that pass its link-or-guid existence check.
RefreshBatch(arts, doc, f, cs) ==
  LET items == Take(doc, RefreshItemLimit)
      New(item) == ~FindByLinkOrGuid(arts, item)
      fresh == SelectSeq(items, New)
  IN [i \in DOMAIN fresh |-> ArticleDoc(fresh[i], f, cs, FALSE)]

\* refreshFeed, from the parser's answer to the response: the database it
\* leaves and what it answers.
RefreshFeedResult(fds, arts, cs, f, fetched, t) ==
  IF ~fetched.ok
  THEN [feeds |-> [fds EXCEPT ![f] = MarkAsError(@, t)],
        articles |-> arts,
        colls |-> cs,
        response |-> Response("refresh", f, "fetch", 0)]
  ELSE LET batch == RefreshBatch(arts, fetched.items, f, fds[f].collections)
           ins == IF Len(batch) > 0 THEN InsertMany(arts, batch)
                  ELSE [arts |-> arts, error |-> "none"]
           fetchedFeeds == [fds EXCEPT ![f] = MarkAsFetched(@, Len(batch), t)]
       IN IF ins.error = "none"
          THEN [feeds |-> fetchedFeeds,
                articles |-> ins.arts,
                colls |-> UpdateStatsOf(cs, fds[f].collections, 1, fetchedFeeds, ins.arts),
                response |-> Response("refresh", f, "none", Len(batch))]
          ELSE [feeds |-> [fds EXCEPT ![f] = MarkAsError(@, t)],
                articles |-> ins.arts,
                colls |-> cs,
                response |-> Response("refresh", f, ins.error, 0)]

\* refreshFeed, the handler next() reaches on POST /:id/refresh
RefreshFeedHandler(f, fetched) ==
  /\ Quiet
  /\ f \in DOMAIN feeds
  /\ LET r == RefreshFeedResult(feeds, articles, colls, f, fetched, now)
     IN /\ feeds' = r.feeds
        /\ articles' = r.articles
        /\ colls' = r.colls
        /\ last' = r.response
  /\ UNCHANGED <<now, procs>>

\* refreshFeed called with the limiter out of the way
RefreshFeed(f, fetched) ==
  /\ RefreshFeedHandler(f, fetched)
  /\ UNCHANGED <<limiter, passed>>

\* The times of a user the limiter still counts at time t (minutes):
\* userRequests.filter(time => now - time < windowMs)
RecentRequests(lim, u, t) ==
  SelectSeq(lim.requests[u], LAMBDA time : t - time < lim.windowMinutes)

UserRateLimitLettingOneMore(lim, u, t) ==
  LET recent == RecentRequests(lim, u, t)
  IN IF Len(recent) > lim.maxRequests
     THEN [next |-> FALSE, limiter |-> lim]
     ELSE [next |-> TRUE,
           limiter |-> [lim EXCEPT !.requests[u] = Append(recent, t)]]

\* The middleware for a request of user u at time t: with maxRequests recent
\* times the request is answered 429 and nothing is stored; otherwise the time
\* is appended to the recent ones, the Map is set and next() is called.
UserRateLimit(lim, u, t) ==
  LET recent == RecentRequests(lim, u, t)
  IN IF Len(recent) >= lim.maxRequests
     THEN [next |-> FALSE, limiter |-> lim]
     ELSE [next |-> TRUE,
           limiter |-> [lim EXCEPT !.requests[u] = Append(recent, t)]]

\* POST /:id/refresh by the authenticated user u: protect, userRateLimit,
\* refreshFeed.
LimitedRefresh(u, f, fetched) ==
  LET r == UserRateLimit(limiter, u, now)
  IN IF r.next
     THEN /\ limiter' = r.limiter
          /\ passed' = [passed EXCEPT ![u] = Append(@, now)]
          /\ RefreshFeedHandler(f, fetched)
     ELSE /\ Quiet
          /\ last' = Response("refresh", f, "rateLimited", 0)
          /\ UNCHANGED <<now, feeds, articles, colls, procs, limiter, passed>>

\* document.save(): the paths changed since the document was loaded are
\* written, the others keep what the database holds.
SaveFeed(fds, f, loaded, changed) ==
  IF f \notin DOMAIN fds THEN fds
  ELSE [fds EXCEPT ![f] =
          [k \in DOMAIN @ |-> IF changed[k] # loaded[k] THEN changed[k] ELSE @[k]]]

\* refreshAllFeeds: POST /refresh-all, one step for each await of its loop.
\* order is the result of findFeedsToUpdate, whose documents are kept as loaded.
TickStart(p, order) ==
  /\ procs[p].pc = "idle"
  /\ Range(order) \in FindFeedsToUpdate(feeds, now)
  /\ Len(order) = Cardinality(Range(order))
  /\ procs' = [procs EXCEPT ![p] =
                 [pc |-> "tickFetch",
                  todo |-> order,
                  loaded |-> [f \in Range(order) |-> feeds[f]],
                  feedData |-> <<>>, items |-> <<>>, i |-> 0, count |-> 0,
                  selected |-> Range(order), succeeded |-> {}, failed |-> {}]]
  /\ UNCHANGED <<now, feeds, articles, colls, last, limiter, passed>>

\* The catch of the loop: markAsError on the loaded document, the feed goes
\* to the failed list, the loop goes on with the next feed.
TickFailed(p) ==
  LET f == Head(procs[p].todo)
      loaded == procs[p].loaded[f]
  IN /\ feeds' = SaveFeed(feeds, f, loaded, MarkAsError(loaded, now))
     /\ procs' = [procs EXCEPT ![p].pc = "tickFetch",
                               ![p].todo = Tail(@),
                               ![p].failed = @ \cup {f},
                               ![p].feedData = <<>>,
                               ![p].items = <<>>, ![p].i = 0, ![p].count = 0]

\* parser.parseURL for the next feed of the loop.
TickFetch(p, fetched) ==
  /\ procs[p].pc = "tickFetch"
  /\ procs[p].todo # <<>>
  /\ IF fetched.ok
     THEN /\ procs' = [procs EXCEPT ![p].pc = "tickFind",
                                    ![p].feedData = fetched.items,
                                    ![p].items = Take(fetched.items, RefreshAllItemLimit),
                                    ![p].i = 1]
          /\ UNCHANGED feeds
     ELSE TickFailed(p)
  /\ UNCHANGED <<now, articles, colls, last, limiter, passed>>

\* Article.findOne for the next item.
TickFind(p) ==
  /\ procs[p].pc = "tickFind"
  /\ procs[p].i <= Len(procs[p].items)
  /\ procs' = IF FindByLinkOrGuid(articles, procs[p].items[procs[p].i])
              THEN [procs EXCEPT ![p].i = @ + 1]
              ELSE [procs EXCEPT ![p].pc = "tickCreate"]
  /\ UNCHANGED <<now, feeds, articles, colls, last, limiter, passed>>

\* Article.create for an item that was not found.
TickCreate(p) ==
  /\ procs[p].pc = "tickCreate"
  /\ LET f == Head(procs[p].todo)
         a == ArticleDoc(procs[p].items[procs[p].i], f,
                         procs[p].loaded[f].collections, TRUE)
     IN IF CreateError(articles, a) = "none"
        THEN /\ articles' = articles \cup {a}
             /\ procs' = [procs EXCEPT ![p].pc = "tickFind",
                                       ![p].i = @ + 1,
                                       ![p].count = @ + 1]
             /\ UNCHANGED feeds
        ELSE /\ TickFailed(p)
             /\ UNCHANGED articles
  /\ UNCHANGED <<now, colls, last, limiter, passed>>

\* markAsFetched after the last item.
TickMark(p) ==
  /\ procs[p].pc = "tickFind"
  /\ procs[p].i > Len(procs[p].items)
  /\ LET f == Head(procs[p].todo)
         loaded == procs[p].loaded[f]
     IN feeds' = SaveFeed(feeds, f, loaded, MarkAsFetched(loaded, procs[p].count, now))
  /\ procs' = [procs EXCEPT ![p].pc = "tickFetch",
                            ![p].todo = Tail(@),
                            ![p].succeeded = @ \cup {Head(procs[p].todo)},
                            ![p].feedData = <<>>,
                               ![p].items = <<>>, ![p].i = 0, ![p].count = 0]
  /\ UNCHANGED <<now, articles, colls, last, limiter, passed>>

\* The response, after the last feed.
TickEnd(p) ==
  /\ procs[p].pc = "tickFetch"
  /\ procs[p].todo = <<>>
  /\ last' = [NoRequest EXCEPT !.op = "refreshAll",
                               !.selected = procs[p].selected,
                               !.succeeded = procs[p].succeeded,
                               !.failed = procs[p].failed]
  /\ procs' = [procs EXCEPT ![p] = Idle]
  /\ UNCHANGED <<now, feeds, articles, colls, limiter, passed>>

\* refreshFeed again, one step for each await, for the requests that overlap.
\* Feed.findById: loaded is the document as read, doc the document in memory,
\* saved its state at the last read or save (what save() compares doc with).
RefreshLoad(p, f) ==
  /\ procs[p].pc = "idle"
  /\ f \in DOMAIN feeds
  /\ procs' = [procs EXCEPT ![p] =
                 [pc |-> "refreshParse", feed |-> f,
                  loaded |-> feeds[f], doc |-> feeds[f], saved |-> feeds[f],
                  feedData |-> <<>>, items |-> <<>>, i |-> 0, batch |-> <<>>,
                  error |-> "none",
                  j |-> 0, cdoc |-> NewCollection, cstats |-> NewCollection]]
  /\ UNCHANGED <<now, feeds, articles, colls, last, limiter, passed>>

\* parser.parseURL
RefreshParse(p, fetched) ==
  /\ procs[p].pc = "refreshParse"
  /\ procs' = IF fetched.ok
              THEN [procs EXCEPT ![p].pc = "refreshFind",
                                 ![p].feedData = fetched.items,
                                 ![p].items = Take(fetched.items, RefreshItemLimit),
                                 ![p].i = 1]
              ELSE [procs EXCEPT ![p].pc = "refreshCatch", ![p].error = "fetch"]
  /\ UNCHANGED <<now, feeds, articles, colls, last, limiter, passed>>

\* Article.findOne for the next item; an item that is not found joins
\* articlesToCreate.
RefreshFind(p) ==
  /\ procs[p].pc = "refreshFind"
  /\ procs[p].i <= Len(procs[p].items)
  /\ LET item == procs[p].items[procs[p].i]
     IN procs' = IF FindByLinkOrGuid(articles, item)
                 THEN [procs EXCEPT ![p].i = @ + 1]
                 ELSE [procs EXCEPT ![p].i = @ + 1,
                                    ![p].batch =
                                       Append(@, ArticleDoc(item, procs[p].feed,
                                                            procs[p].doc.collections, FALSE))]
  /\ UNCHANGED <<now, feeds, articles, colls, last, limiter, passed>>

\* Article.insertMany after the last item.
RefreshInsert(p) ==
  /\ procs[p].pc = "refreshFind"
  /\ procs[p].i > Len(procs[p].items)
  /\ LET batch == procs[p].batch
         ins == IF Len(batch) > 0 THEN InsertMany(articles, batch)
                ELSE [arts |-> articles, error |-> "none"]
     IN /\ articles' = ins.arts
        /\ procs' = IF ins.error = "none"
                    THEN [procs EXCEPT ![p].pc = "refreshMark"]
                    ELSE [procs EXCEPT ![p].pc = "refreshCatch", ![p].error = ins.error]
  /\ UNCHANGED <<now, feeds, colls, last, limiter, passed>>

\* The catch: markAsError on the document in memory, then the 500 response.
RefreshCatch(p) ==
  /\ procs[p].pc = "refreshCatch"
  /\ feeds' = SaveFeed(feeds, procs[p].feed, procs[p].saved,
                       MarkAsError(procs[p].doc, now))
  /\ last' = Response("refresh", procs[p].feed, procs[p].error, 0)
  /\ procs' = [procs EXCEPT ![p] = Idle]
  /\ UNCHANGED <<now, articles, colls, limiter, passed>>

\* markAsFetched on the document in memory, and its save.
RefreshMark(p) ==
  /\ procs[p].pc = "refreshMark"
  /\ LET fetched == MarkAsFetched(procs[p].doc, Len(procs[p].batch), now)
     IN /\ feeds' = SaveFeed(feeds, procs[p].feed, procs[p].saved, fetched)
        /\ procs' = [procs EXCEPT ![p].pc = "refreshStatsRead",
                                  ![p].doc = fetched,
                                  ![p].saved = fetched,
                                  ![p].j = 1]
  /\ UNCHANGED <<now, articles, colls, last, limiter, passed>>

\* document.save() of a collection: as SaveFeed, the changed paths only.
SaveCollection(cs, c, loaded, changed) ==
  IF c \notin DOMAIN cs THEN cs
  ELSE [cs EXCEPT ![c] =
          [k \in DOMAIN @ |-> IF changed[k] # loaded[k] THEN changed[k] ELSE @[k]]]

\* Collection.findById for the next collection of the feed, and the queries
\* of its updateStats (Feed.find, Article.countDocuments), read at one instant.
RefreshStatsRead(p) ==
  /\ procs[p].pc = "refreshStatsRead"
  /\ procs[p].j <= Len(procs[p].doc.collections)
  /\ LET c == procs[p].doc.collections[procs[p].j]
     IN procs' = IF c \in DOMAIN colls
                 THEN [procs EXCEPT ![p].pc = "refreshStatsSave",
                                    ![p].cdoc = colls[c],
                                    ![p].cstats = UpdateStats(colls[c], feeds, articles)]
                 ELSE [procs EXCEPT ![p].j = @ + 1]
  /\ UNCHANGED <<now, feeds, articles, colls, last, limiter, passed>>

\* The save that ends updateStats.
RefreshStatsSave(p) ==
  /\ procs[p].pc = "refreshStatsSave"
  /\ colls' = SaveCollection(colls, procs[p].doc.collections[procs[p].j],
                             procs[p].cdoc, procs[p].cstats)
  /\ procs' = [procs EXCEPT ![p].pc = "refreshStatsRead", ![p].j = @ + 1]
  /\ UNCHANGED <<now, feeds, articles, last, limiter, passed>>

\* The 200 response, after the last collection.
RefreshRespond(p) ==
  /\ procs[p].pc = "refreshStatsRead"
  /\ procs[p].j > Len(procs[p].doc.collections)
  /\ last' = Response("refresh", procs[p].feed, "none", Len(procs[p].batch))
  /\ procs' = [procs EXCEPT ![p] = Idle]
  /\ UNCHANGED <<now, feeds, articles, colls, limiter, passed>>

\* Storage that is unavailable: a database call of a running request rejects.
\* In refreshFeed the rejection of a query, of the insert or of the save of
\* updateStats goes to the catch.
RefreshStorageFails(p) ==
  /\ \/ procs[p].pc = "refreshFind"
     \/ procs[p].pc = "refreshStatsRead" /\ procs[p].j <= Len(procs[p].doc.collections)
     \/ procs[p].pc = "refreshStatsSave"
  /\ procs' = [procs EXCEPT ![p].pc = "refreshCatch", ![p].error = "storage"]
  /\ UNCHANGED <<now, feeds, articles, colls, last, limiter, passed>>

\* The save of markAsFetched rejects: the document in memory keeps what
\* markAsFetched assigned.
RefreshMarkFails(p) ==
  /\ procs[p].pc = "refreshMark"
  /\ procs' = [procs EXCEPT ![p].pc = "refreshCatch",
                            ![p].error = "storage",
                            ![p].doc = MarkAsFetched(@, Len(procs[p].batch), now)]
  /\ UNCHANGED <<now, feeds, articles, colls, last, limiter, passed>>

\* The save of markAsError rejects inside the catch: the rejection leaves the
\* handler and asyncHandler hands it to the error middleware.
RefreshThrows(p) ==
  /\ procs[p].pc = "refreshCatch"
  /\ last' = Response("refresh", procs[p].feed, "storage", 0)
  /\ procs' = [procs EXCEPT ![p] = Idle]
  /\ UNCHANGED <<now, feeds, articles, colls, limiter, passed>>

\* In refreshAllFeeds the rejection of Article.findOne, of Article.create or of
\* the save of markAsFetched goes to the catch of the loop, whose markAsError
\* works on the document in memory.
TickStorageFails(p) ==
  /\ procs[p].pc \in {"tickFind", "tickCreate"}
  /\ LET f == Head(procs[p].todo)
         loaded == procs[p].loaded[f]
         doc == IF procs[p].pc = "tickFind" /\ procs[p].i > Len(procs[p].items)
                THEN MarkAsFetched(loaded, procs[p].count, now)
                ELSE loaded
     IN /\ feeds' = SaveFeed(feeds, f, loaded, MarkAsError(doc, now))
        /\ procs' = [procs EXCEPT ![p].pc = "tickFetch",
                                  ![p].todo = Tail(@),
                                  ![p].failed = @ \cup {f},
                                  ![p].feedData = <<>>,
                               ![p].items = <<>>, ![p].i = 0, ![p].count = 0]
  /\ UNCHANGED <<now, articles, colls, last, limiter, passed>>

\* The save of markAsError rejects inside the catch of the loop: the rejection
\* leaves refreshAllFeeds, the feeds that remain are not processed and the
\* results are not sent.
TickThrows(p) ==
  /\ procs[p].pc \in {"tickFetch", "tickFind", "tickCreate"}
  /\ procs[p].todo # <<>>
  /\ last' = [NoRequest EXCEPT !.op = "refreshAll",
                               !.error = "storage",
                               !.selected = procs[p].selected,
                               !.succeeded = procs[p].succeeded,
                               !.failed = procs[p].failed]
  /\ procs' = [procs EXCEPT ![p] = Idle]
  /\ UNCHANGED <<now, feeds, articles, colls, limiter, passed>>

\* Time passes between two requests.
AdvanceTime(d) ==
  /\ Quiet
  /\ now + d <= MaxNow
  /\ now' = now + d
  /\ UNCHANGED <<feeds, articles, colls, last, procs, limiter, passed>>

-----------------------------------------------------------------------------
\* Specifications

\* The upstream documents of at most n items.
Docs(n) == SeqsUpTo(Items, n)

Fetches(n) == {FetchFailed} \cup {Fetched(doc) : doc \in Docs(n)}

\* The clock moves a day at a time.
TimeSteps == {BackoffCapMinutes}

\* The parser results of the health specification: a failure, an
\* empty document, a document of one item.
HealthFetches == {FetchFailed, Fetched(<<>>), Fetched(<<[link |-> 1, guid |-> 1]>>)}

\* The counters of a feed are below the bounds of the model.
Below(fd) == fd.errorCount < MaxErrors /\ fd.fetchCount < MaxFetches

\* Feed health and scheduling: requests served one after the other, with the
\* clock moving between them.
Next ==
  \/ \E c \in CollIds : CreateCollection(c)
  \/ \E url \in FeedIds, c \in CollIds, freq \in Frequencies, fetched \in HealthFetches :
       AddFeed(url, c, freq, fetched)
  \/ \E f \in DOMAIN feeds,
        updates \in [isActive : BOOLEAN, updateFrequency : Frequencies, status : Statuses] :
       UpdateFeed(f, updates)
  \/ \E f \in DOMAIN feeds : ResetErrorsRoute(f)
  \/ \E f \in DOMAIN feeds, fetched \in HealthFetches :
       Below(feeds[f]) /\ RefreshFeed(f, fetched)
  \/ \E S \in FindFeedsToUpdate(feeds, now) :
       \E order \in Perms(S) :
         Quiet /\ (\A f \in S : Below(feeds[f])) /\ TickStart(1, order)
  \/ \E fetched \in HealthFetches : TickFetch(1, fetched)
  \/ TickFind(1)
  \/ TickCreate(1)
  \/ TickMark(1)
  \/ TickEnd(1)
  \/ \E d \in TimeSteps : AdvanceTime(d)

Spec == Init /\ [][Next]_vars

\* The same requests without updateFeed: the feed document is written by
\* markAsFetched, markAsError and resetErrors alone.
NextMethods ==
  \/ \E c \in CollIds : CreateCollection(c)
  \/ \E url \in FeedIds, c \in CollIds, freq \in Frequencies, fetched \in HealthFetches :
       AddFeed(url, c, freq, fetched)
  \/ \E f \in DOMAIN feeds : ResetErrorsRoute(f)
  \/ \E f \in DOMAIN feeds, fetched \in HealthFetches :
       Below(feeds[f]) /\ RefreshFeed(f, fetched)
  \/ \E S \in FindFeedsToUpdate(feeds, now) :
       \E order \in Perms(S) :
         Quiet /\ (\A f \in S : Below(feeds[f])) /\ TickStart(1, order)
  \/ \E fetched \in HealthFetches : TickFetch(1, fetched)
  \/ TickFind(1)
  \/ TickCreate(1)
  \/ TickMark(1)
  \/ TickEnd(1)
  \/ \E d \in TimeSteps : AdvanceTime(d)

SpecMethods == Init /\ [][NextMethods]_vars

-----------------------------------------------------------------------------
\* Ingestion: requests served one after the other at one instant, over every
\* upstream document of at most MaxItems items.

\* A feed has been fetched fewer than MaxRuns times.
FewRuns(fd) == fd.errorCount + fd.fetchCount < MaxRuns

NextIngest ==
  \/ \E c \in CollIds : CreateCollection(c)
  \/ \E url \in FeedIds, c \in CollIds, fetched \in Fetches(MaxItems) :
       AddFeed(url, c, DefaultUpdateFrequency, fetched)
  \/ \E f \in DOMAIN feeds, fetched \in Fetches(MaxItems) :
       FewRuns(feeds[f]) /\ RefreshFeed(f, fetched)
  \/ \E S \in FindFeedsToUpdate(feeds, now) :
       \E order \in Perms(S) :
         Quiet /\ (\A f \in S : FewRuns(feeds[f])) /\ TickStart(1, order)
  \/ \E fetched \in Fetches(MaxItems) : TickFetch(1, fetched)
  \/ TickFind(1)
  \/ TickCreate(1)
  \/ TickMark(1)
  \/ TickEnd(1)

SpecIngest == Init /\ [][NextIngest]_vars

-----------------------------------------------------------------------------
\* Scheduling of a corpus larger than a batch: NumSchedFeeds feeds are added,
\* some before and some after the clock moves, then refresh-all is called.

\* The feeds of a cursor in the order of their ids.
RECURSIVE InIdOrder(_)
InIdOrder(S) ==
  IF S = {} THEN <<>>
  ELSE LET f == CHOOSE x \in S : \A y \in S : x <= y
       IN <<f>> \o InIdOrder(S \ {f})

NextSched ==
  \/ \E c \in CollIds : CreateCollection(c)
  \/ \E c \in CollIds :
       /\ Len(feeds) < NumSchedFeeds
       /\ AddFeed(Len(feeds) + 1, c, DefaultUpdateFrequency, Fetched(<<>>))
  \/ \E S \in FindFeedsToUpdate(feeds, now) :
       Quiet /\ Len(feeds) = NumSchedFeeds /\ TickStart(1, InIdOrder(S))
  \/ TickFetch(1, Fetched(<<>>))
  \/ TickMark(1)
  \/ TickEnd(1)
  \/ \E d \in TimeSteps : AdvanceTime(d)

SpecSched == Init /\ [][NextSched]_vars

-----------------------------------------------------------------------------
\* Overlapping manual refreshes of one feed, over the documents of at most
\* MaxItems items that carry a link and no guid.

ConcFetches ==
  {Fetched(doc) : doc \in SeqsUpTo({item \in Items : item.link # 0 /\ item.guid = 0},
                                   MaxItems)}

NextConc ==
  \/ \E c \in CollIds : CreateCollection(c)
  \/ \E url \in FeedIds, c \in CollIds :
       AddFeed(url, c, DefaultUpdateFrequency, Fetched(<<>>))
  \/ \E p \in DOMAIN procs, f \in DOMAIN feeds :
       FewRuns(feeds[f]) /\ RefreshLoad(p, f)
  \/ \E p \in DOMAIN procs, fetched \in ConcFetches \cup {FetchFailed} :
       RefreshParse(p, fetched)
  \/ \E p \in DOMAIN procs : RefreshFind(p)
  \/ \E p \in DOMAIN procs : RefreshInsert(p)
  \/ \E p \in DOMAIN procs : RefreshCatch(p)
  \/ \E p \in DOMAIN procs : RefreshMark(p)
  \/ \E p \in DOMAIN procs : RefreshStatsRead(p)
  \/ \E p \in DOMAIN procs : RefreshStatsSave(p)
  \/ \E p \in DOMAIN procs : RefreshRespond(p)

SpecConc == Init /\ [][NextConc]_vars

-----------------------------------------------------------------------------
\* Refresh cycles of one feed, served one after the other while the clock
\* moves: subscription, manual refreshes and ticks over the documents of
\* ConcFetches and the failed fetch.

CycleFetches == ConcFetches \cup {FetchFailed}

NextCycle ==
  \/ \E c \in CollIds : CreateCollection(c)
  \/ \E url \in FeedIds, c \in CollIds, freq \in Frequencies, fetched \in CycleFetches :
       AddFeed(url, c, freq, fetched)
  \/ \E f \in DOMAIN feeds, fetched \in CycleFetches :
       FewRuns(feeds[f]) /\ RefreshFeed(f, fetched)
  \/ \E S \in FindFeedsToUpdate(feeds, now) :
       \E order \in Perms(S) :
         Quiet /\ (\A f \in S : FewRuns(feeds[f])) /\ TickStart(1, order)
  \/ \E fetched \in CycleFetches : TickFetch(1, fetched)
  \/ TickFind(1)
  \/ TickCreate(1)
  \/ TickMark(1)
  \/ TickEnd(1)
  \/ \E d \in TimeSteps : AdvanceTime(d)

SpecCycle == Init /\ [][NextCycle]_vars

-----------------------------------------------------------------------------
\* Refreshes and ticks of MaxOutageFeeds feeds, served one after the other
\* while the storage may be unavailable for any of their database calls; the
\* parser answers as in HealthFetches.

NextOutage ==
  \/ \E c \in CollIds : CreateCollection(c)
  \/ \E c \in CollIds :
       /\ Len(feeds) < MaxOutageFeeds
       /\ AddFeed(Len(feeds) + 1, c, DefaultUpdateFrequency, Fetched(<<>>))
  \/ \E f \in DOMAIN feeds : Quiet /\ FewRuns(feeds[f]) /\ RefreshLoad(1, f)
  \/ \E fetched \in HealthFetches : RefreshParse(1, fetched)
  \/ RefreshFind(1)
  \/ RefreshInsert(1)
  \/ RefreshCatch(1)
  \/ RefreshMark(1)
  \/ RefreshStatsRead(1)
  \/ RefreshStatsSave(1)
  \/ RefreshRespond(1)
  \/ RefreshStorageFails(1)
  \/ RefreshMarkFails(1)
  \/ RefreshThrows(1)
  \/ \E S \in FindFeedsToUpdate(feeds, now) :
       \E order \in Perms(S) :
         Quiet /\ (\A f \in S : FewRuns(feeds[f])) /\ TickStart(1, order)
  \/ \E fetched \in HealthFetches : TickFetch(1, fetched)
  \/ TickFind(1)
  \/ TickCreate(1)
  \/ TickMark(1)
  \/ TickEnd(1)
  \/ TickStorageFails(1)
  \/ TickThrows(1)

SpecOutage == Init /\ [][NextOutage]_vars

-----------------------------------------------------------------------------
\* The article store under every writer at once: subscriptions, a manual
\* refresh and a tick that overlap, over the documents of at most
\* MaxStoreItems items with any link and guid.

StoreFetches == Fetches(MaxStoreItems)

NextStore ==
  \/ \E c \in CollIds : CreateCollection(c)
  \/ \E url \in FeedIds, c \in CollIds, fetched \in StoreFetches :
       AddFeed(url, c, DefaultUpdateFrequency, fetched)
  \/ \E f \in DOMAIN feeds : FewRuns(feeds[f]) /\ RefreshLoad(1, f)
  \/ \E fetched \in StoreFetches : RefreshParse(1, fetched)
  \/ RefreshFind(1)
  \/ RefreshInsert(1)
  \/ RefreshCatch(1)
  \/ RefreshMark(1)
  \/ RefreshStatsRead(1)
  \/ RefreshStatsSave(1)
  \/ RefreshRespond(1)
  \/ \E S \in FindFeedsToUpdate(feeds, now) :
       \E order \in Perms(S) :
         (\A f \in S : FewRuns(feeds[f])) /\ TickStart(2, order)
  \/ \E fetched \in StoreFetches : TickFetch(2, fetched)
  \/ TickFind(2)
  \/ TickCreate(2)
  \/ TickMark(2)
  \/ TickEnd(2)

SpecStore == Init /\ [][NextStore]_vars

-----------------------------------------------------------------------------
\* Long documents: an upstream list whose items all differ, cut after 4 items
\* and one item past each of the limits of the handlers, and the empty
\* document, given to subscriptions, manual refreshes and ticks served one
\* after the other.

LongDoc(n) == [i \in 1..n |-> [link |-> i, guid |-> i]]

BoundFetches ==
  {FetchFailed} \cup
  {Fetched(LongDoc(n)) : n \in {0, 4, AddFeedItemLimit + 1, RefreshItemLimit + 1}}

NextBound ==
  \/ \E c \in CollIds : CreateCollection(c)
  \/ \E url \in FeedIds, c \in CollIds, freq \in Frequencies, fetched \in BoundFetches :
       AddFeed(url, c, freq, fetched)
  \/ \E f \in DOMAIN feeds : Quiet /\ FewRuns(feeds[f]) /\ RefreshLoad(1, f)
  \/ \E fetched \in BoundFetches : RefreshParse(1, fetched)
  \/ RefreshFind(1)
  \/ RefreshInsert(1)
  \/ RefreshCatch(1)
  \/ RefreshMark(1)
  \/ RefreshStatsRead(1)
  \/ RefreshStatsSave(1)
  \/ RefreshRespond(1)
  \/ \E S \in FindFeedsToUpdate(feeds, now) :
       \E order \in Perms(S) :
         Quiet /\ (\A f \in S : FewRuns(feeds[f])) /\ TickStart(1, order)
  \/ \E fetched \in BoundFetches : TickFetch(1, fetched)
  \/ TickFind(1)
  \/ TickCreate(1)
  \/ TickMark(1)
  \/ TickEnd(1)
  \/ \E d \in TimeSteps : AdvanceTime(d)

SpecBound == Init /\ [][NextBound]_vars

-----------------------------------------------------------------------------
\* Feeds shared between collections: NumMemberFeeds feeds and NumGroups
\* collections, subscriptions to new and to stored feeds, removals and manual
\* refreshes served one after the other, over the documents of at most one
\* item whose guid is its link; a feed is refreshed MaxFetches times at most.

MemberFeedIds == 1..NumMemberFeeds
GroupIds == 1..NumGroups

MemberDocs == SeqsUpTo({item \in Items : item.link # 0 /\ item.guid = item.link}, 1)

MemberFetches == {FetchFailed} \cup {Fetched(doc) : doc \in MemberDocs}

NextMember ==
  \/ \E c \in GroupIds : CreateCollection(c)
  \/ \E url \in MemberFeedIds, c \in GroupIds, fetched \in MemberFetches :
       AddFeed(url, c, DefaultUpdateFrequency, fetched)
  \/ \E f \in MemberFeedIds, c \in GroupIds : AttachFeed(f, c)
  \/ \E f \in MemberFeedIds, c \in GroupIds : RemoveFeed(f, c)
  \/ \E f \in DOMAIN feeds, doc \in MemberDocs :
       feeds[f].fetchCount < MaxFetches /\ RefreshFeed(f, Fetched(doc))

SpecMember == Init /\ [][NextMember]_vars

-----------------------------------------------------------------------------
\* The existence checks of the three handlers: NumMemberFeeds feeds of one
\* collection, subscribed, refreshed and ticked one after the other, over the
\* documents of at most one item that has a link, with or without a guid.

DedupDocs == SeqsUpTo({item \in Items : item.link # 0}, 1)

DedupFetches == {FetchFailed} \cup {Fetched(doc) : doc \in DedupDocs}

NextDedup ==
  \/ \E c \in CollIds : CreateCollection(c)
  \/ \E url \in MemberFeedIds, c \in CollIds, fetched \in DedupFetches :
       AddFeed(url, c, DefaultUpdateFrequency, fetched)
  \/ \E f \in DOMAIN feeds, fetched \in DedupFetches :
       FewRuns(feeds[f]) /\ RefreshFeed(f, fetched)
  \/ \E S \in FindFeedsToUpdate(feeds, now) :
       \E order \in Perms(S) :
         Quiet /\ (\A f \in S : FewRuns(feeds[f])) /\ TickStart(1, order)
  \/ \E fetched \in DedupFetches : TickFetch(1, fetched)
  \/ TickFind(1)
  \/ TickCreate(1)
  \/ TickMark(1)
  \/ TickEnd(1)

SpecDedup == Init /\ [][NextDedup]_vars

-----------------------------------------------------------------------------
\* Subscriptions to stored feeds that overlap: NumProcs requests at a time,
\* between subscriptions of new feeds (of empty documents) and removals, while
\* the two lists hold MaxMembers entries at most.

NextAttach ==
  \/ \E c \in GroupIds : CreateCollection(c)
  \/ \E url \in MemberFeedIds, c \in GroupIds :
       AddFeed(url, c, DefaultUpdateFrequency, Fetched(<<>>))
  \/ \E p \in DOMAIN procs, f \in DOMAIN feeds, c \in DOMAIN colls :
       /\ Len(feeds[f].collections) < MaxMembers
       /\ Len(colls[c].feeds) < MaxMembers
       /\ AttachLoad(p, f, c)
  \/ \E p \in DOMAIN procs : AttachSaveFeed(p)
  \/ \E p \in DOMAIN procs : AttachSaveColl(p)
  \/ \E f \in MemberFeedIds, c \in GroupIds : RemoveFeedRequest(f, c)

SpecAttach == Init /\ [][NextAttach]_vars

-----------------------------------------------------------------------------
\* Readers: NumUsers users mark the articles of one feed read and unread
\* between manual refreshes.  The feed is subscribed with an empty document,
\* so every article comes from a refresh, which recomputes the statistics.

NextRead ==
  \/ \E c \in CollIds : CreateCollection(c)
  \/ \E url \in FeedIds, c \in CollIds :
       AddFeed(url, c, DefaultUpdateFrequency, Fetched(<<>>))
  \/ \E f \in DOMAIN feeds, doc \in MemberDocs :
       FewRuns(feeds[f]) /\ RefreshFeed(f, Fetched(doc))
  \/ \E a \in articles, u \in Users : MarkAsRead(a, u)
  \/ \E a \in articles, u \in Users : MarkAsUnread(a, u)

SpecRead == Init /\ [][NextRead]_vars

-----------------------------------------------------------------------------
\* The rate limit: the users refresh one feed through the limited route while
\* the clock advances by minutes.  The closure is the route's, or one made
\* with small parameters; at most MaxPassed requests are let through in all.

LimitParams ==
  {<<RefreshMaxRequests, RefreshWindowMinutes>>} \cup ((1..MaxLimit) \X (1..MaxWindow))

RECURSIVE PassedBy(_)
PassedBy(S) ==
  IF S = {} THEN 0
  ELSE LET u == CHOOSE x \in S : TRUE
       IN Len(passed[u]) + PassedBy(S \ {u})

InitLimit ==
  /\ limiter \in {NewRateLimit(q[1], q[2]) : q \in LimitParams}
  /\ passed = [u \in Users |-> <<>>]
  /\ now = 0
  /\ feeds = <<>>
  /\ articles = {}
  /\ colls = <<>>
  /\ last = NoRequest
  /\ procs = [p \in 1..NumProcs |-> Idle]

NextLimit ==
  \/ \E c \in CollIds : CreateCollection(c)
  \/ \E c \in CollIds : AddFeed(1, c, DefaultUpdateFrequency, Fetched(<<>>))
  \/ \E u \in Users, f \in DOMAIN feeds :
       PassedBy(Users) < MaxPassed /\ LimitedRefresh(u, f, Fetched(<<>>))
  \/ now < LimitHorizon /\ feeds # <<>> /\ AdvanceTime(1)

SpecLimit == InitLimit /\ [][NextLimit]_vars

-----------------------------------------------------------------------------
\* Feed health and scheduling claims (under Spec)

\* The step is a failure transition (markAsError) of feed f: nothing else
\* raises stats.errorCount.
FailureStep(f) ==
  /\ f \in DOMAIN feeds /\ f \in DOMAIN feeds'
  /\ feeds'[f].errorCount = feeds[f].errorCount + 1

\* The step is the findFeedsToUpdate of a scheduler tick, and f is selected.
TickSelects(f) ==
  \E p \in DOMAIN procs :
    /\ procs[p].pc = "idle"
    /\ procs'[p].pc = "tickFetch"
    /\ f \in procs'[p].selected

\* The step answers POST /:id/reset-errors for feed f: no tick is under way,
\* and of the requests only this one leaves that response.
ResetStep(f) ==
  /\ f \in DOMAIN feeds
  /\ Quiet /\ procs' = procs
  /\ last'.op = "resetErrors" /\ last'.feed = f
  /\ now' = now

\* C4: on the k-th consecutive failed fetch (k counted after the increment)
\* nextFetchAt is now + min(updateFrequency * 2^k, 1440) minutes; with
\* updateFrequency = 60 the delays for k = 1..5 are 120, 240, 480, 960 and 1440
\* minutes; the third consecutive failure leaves attempts = 3, the delay
\* min(updateFrequency * 8, 1440) and status = error.
C4_BackoffSchedule ==
  [][\A f \in DOMAIN feeds :
       FailureStep(f) =>
         LET k == feeds'[f].attempts
             freq == feeds[f].updateFrequency
             delay == feeds'[f].nextFetchAt - now
             capped == IF freq * 2^k <= 1440 THEN freq * 2^k ELSE 1440
         IN /\ k = feeds[f].attempts + 1
            /\ delay = capped
            /\ freq = 60 /\ k <= 5 => delay = <<120, 240, 480, 960, 1440>>[k]
            /\ k = 3 => /\ feeds'[f].status = "error"
                        /\ delay = (IF freq * 8 <= 1440 THEN freq * 8 ELSE 1440)
    ]_vars

\* A feed of frequency 60 has just failed for the fifth time in a row and is
\* scheduled a day later.
C4_Witness ==
  \E f \in DOMAIN feeds :
    /\ last.op = "refresh" /\ last.feed = f /\ last.error = "fetch"
    /\ feeds[f].updateFrequency = 60
    /\ feeds[f].attempts = 5
    /\ feeds[f].nextFetchAt = now + 1440

\* C5: a failure transition that brings the consecutive failure count to 5 or
\* more sets the feed's status to inactive.
C5_AutoDisableSetsInactive ==
  [][\A f \in DOMAIN feeds :
       FailureStep(f) /\ feeds'[f].attempts >= 5 => feeds'[f].status = "inactive"
    ]_vars

\* C6: a feed whose status is inactive is never selected by the scheduler
\* tick, whatever its isActive flag and its nextFetchAt.
C6_InactiveNeverSelected ==
  [][\A f \in DOMAIN feeds : TickSelects(f) => feeds[f].status # "inactive"]_vars

\* C7: a feed with isActive = false is never selected by the scheduler tick;
\* the fifth consecutive failure leaves the feed with isActive = false, and
\* isActive comes back only by an explicit reset or re-activation request, so
\* until then no tick selects the feed.
C7_DisabledNeverSelected ==
  [][\A f \in DOMAIN feeds :
       /\ TickSelects(f) => feeds[f].isActive
       /\ FailureStep(f) /\ feeds'[f].attempts >= 5 => ~feeds'[f].isActive
       /\ f \in DOMAIN feeds' /\ ~feeds[f].isActive /\ feeds'[f].isActive
            => last'.op \in {"updateFeed", "resetErrors"}
    ]_vars

\* A tick has run and left out a feed that five failures have disabled, though
\* its status is active again and its nextFetchAt has come.
C7_Witness ==
  \E f \in DOMAIN feeds :
    /\ feeds[f].errorCount >= 5
    /\ ~feeds[f].isActive
    /\ feeds[f].status = "active"
    /\ feeds[f].nextFetchAt <= now
    /\ last.op = "refreshAll"
    /\ f \notin last.selected

\* C8: the tick selects a feed if and only if isActive = true, status is not
\* inactive and nextFetchAt <= now (up to the batch size of 10); in particular
\* a feed in status error whose backoff delay has elapsed is selected again
\* while it has fewer than 5 consecutive failures.
C8_SelectionPredicate ==
  [][\A p \in DOMAIN procs :
       procs[p].pc = "idle" /\ procs'[p].pc = "tickFetch" =>
         LET eligible == {f \in DOMAIN feeds :
                            /\ feeds[f].isActive
                            /\ feeds[f].status # "inactive"
                            /\ feeds[f].nextFetchAt <= now}
         IN /\ procs'[p].selected \subseteq eligible
            /\ Cardinality(procs'[p].selected) = Min(10, Cardinality(eligible))
    ]_vars

\* C10: after POST /:id/reset-errors the feed has status active, no lastError
\* (zero consecutive failures), nextFetchAt = now, and it satisfies the
\* selection predicate of the scheduler; from any health state, the
\* auto-disabled one included (a feed switched off by hand is left aside).
C10_ResetMakesEligible ==
  [][\A f \in DOMAIN feeds :
       ResetStep(f) /\ (feeds[f].isActive \/ feeds[f].attempts >= 5) =>
         /\ feeds'[f].status = "active"
         /\ feeds'[f].attempts = 0
         /\ feeds'[f].nextFetchAt = now
         /\ NeedsFetch(feeds'[f], now)
    ]_vars

-----------------------------------------------------------------------------
\* Ingestion claims (under SpecIngest)

\* C1: for any feed and any upstream document, the manual refresh run twice in
\* a row on the unchanged document persists no new article on its second run,
\* and the feed's totalArticles is the same after the second run as after the
\* first.
C1_IdempotentIngestion ==
  \A f \in DOMAIN feeds, doc \in Docs(MaxItems) :
    LET r1 == RefreshFeedResult(feeds, articles, colls, f, Fetched(doc), now)
        r2 == RefreshFeedResult(r1.feeds, r1.articles, r1.colls, f, Fetched(doc), now)
    IN /\ r2.articles = r1.articles
       /\ r2.response.newArticles = 0
       /\ r2.feeds[f].totalArticles = r1.feeds[f].totalArticles

\* C3: a refresh whose insert meets a duplicate key still takes the success
\* transition (status active, fetchCount incremented), leaves errorCount and
\* the consecutive failure count alone and answers without an error; in
\* refreshFeed for any document whose batch meets a duplicate key, in
\* refreshAllFeeds at the Article.create that meets one.
C3_DuplicateKeyIsSkipped ==
  [][/\ \A f \in DOMAIN feeds, doc \in Docs(MaxItems) :
          LET batch == RefreshBatch(articles, doc, f, feeds[f].collections)
              r == RefreshFeedResult(feeds, articles, colls, f, Fetched(doc), now)
          IN Len(batch) > 0 /\ InsertMany(articles, batch).error = "duplicate" =>
               /\ r.response.error = "none"
               /\ r.feeds[f].status = "active"
               /\ r.feeds[f].fetchCount = feeds[f].fetchCount + 1
               /\ r.feeds[f].errorCount = feeds[f].errorCount
               /\ r.feeds[f].attempts = feeds[f].attempts
     /\ \A p \in DOMAIN procs :
          /\ procs[p].pc = "tickCreate"
          /\ procs'[p] # procs[p]
          /\ LET item == procs[p].items[procs[p].i]
                 f == Head(procs[p].todo)
             IN CreateError(articles,
                            ArticleDoc(item, f, procs[p].loaded[f].collections, TRUE))
                  = "duplicate"
          => LET f == Head(procs[p].todo)
             IN /\ f \notin procs'[p].failed
                /\ f \in DOMAIN feeds' => /\ feeds'[f].status # "error"
                                          /\ feeds'[f].errorCount = feeds[f].errorCount
                                          /\ feeds'[f].attempts = feeds[f].attempts
    ]_vars

-----------------------------------------------------------------------------
\* Scheduling order (under SpecSched) and overlapping refreshes (under SpecConc)

\* C9: when more than 10 feeds are due, the feeds a tick selects are those
\* with the smallest nextFetchAt: no due feed that is left out is more overdue
\* than a feed that is selected.
C9_MostOverdueFirst ==
  [][\A p \in DOMAIN procs :
       procs[p].pc = "idle" /\ procs'[p].pc = "tickFetch" =>
         LET due == {f \in DOMAIN feeds : NeedsFetch(feeds[f], now)}
             selected == procs'[p].selected
         IN Cardinality(due) > 10 =>
              \A s \in selected, d \in due \ selected :
                feeds[s].nextFetchAt <= feeds[d].nextFetchAt
    ]_vars

\* A manual refresh has run its insertMany and not yet answered.
PastInsert(p) ==
  procs[p].pc \in {"refreshCatch", "refreshMark", "refreshStatsRead", "refreshStatsSave"}

\* C2: when two refreshes of one feed overlap and both have passed the
\* existence check for the same new item, exactly one article for that item
\* exists once both have run their insert.
C2_DedupRaceSafety ==
  \A p, q \in DOMAIN procs :
    p # q /\ PastInsert(p) /\ PastInsert(q) /\ procs[p].feed = procs[q].feed =>
      \A a \in Range(procs[p].batch) :
        (\E b \in Range(procs[q].batch) : b.link = a.link) =>
          Cardinality({x \in articles : x.link = a.link}) = 1

-----------------------------------------------------------------------------
\* Health transitions and counters (under SpecCycle)

\* The step is a whole manual refresh of feed f (POST /:id/refresh).
ManualRefreshStep(f) ==
  /\ f \in DOMAIN feeds /\ f \in DOMAIN feeds'
  /\ Quiet /\ procs' = procs /\ now' = now
  /\ last'.op = "refresh" /\ last'.feed = f
  /\ feeds' # feeds

\* The step is the markAsFetched that ends feed f's turn in the tick of p.
TickMarkStep(p, f) ==
  /\ f \in DOMAIN feeds /\ f \in DOMAIN feeds'
  /\ procs[p].pc = "tickFind" /\ procs'[p].pc = "tickFetch"
  /\ f = Head(procs[p].todo)
  /\ f \notin procs'[p].failed

\* averageArticlesPerFetch has taken in a fetch of c new articles:
\* avg' = avg + (c - avg) / fetchCount', that is avg' * fetchCount' =
\* avg * (fetchCount' - 1) + c.
MeanUpdated(f, c) ==
  LET avg == feeds[f].averageArticlesPerFetch
      new == feeds'[f].averageArticlesPerFetch
      n == feeds'[f].fetchCount
  IN new.num * n * avg.den = (avg.num * (n - 1) + c * avg.den) * new.den

\* C11: every successful fetch of c new articles, c = 0 included, moves
\* averageArticlesPerFetch by the incremental mean formula, so that after
\* fetches of c1..cn articles it is (c1 + ... + cn) / n with n = fetchCount.
C11_IncrementalMean ==
  [][\A f \in DOMAIN feeds :
       /\ ManualRefreshStep(f) /\ last'.error = "none"
            => MeanUpdated(f, last'.newArticles)
       /\ \A p \in DOMAIN procs :
            TickMarkStep(p, f) => MeanUpdated(f, procs[p].count)
    ]_vars

-----------------------------------------------------------------------------
\* Overlapping refreshes (under SpecConc)

\* The refresh of p has fetched the feed's document and has not answered yet.
HasFetched(p) == procs[p].pc \notin {"idle", "refreshParse"}

\* C12: no two ingestion pipelines of one feed are in flight together: a
\* refresh started while another refresh of the feed is running neither
\* fetches nor persists before the first has finished.
C12_SingleFlight ==
  \A p, q \in DOMAIN procs :
    p # q /\ HasFetched(p) /\ HasFetched(q) => procs[p].feed # procs[q].feed

\* C19: when refreshes overlap and all of them succeed, once the last has
\* answered the counters stored in each collection are those computed from the
\* final feeds and articles.
C19_StatsConverge ==
  /\ Quiet
  /\ last.op = "refresh" /\ last.error = "none"
  /\ \A f \in DOMAIN feeds : feeds[f].errorCount = 0
  => \A c \in DOMAIN colls : colls[c] = UpdateStats(colls[c], feeds, articles)

-----------------------------------------------------------------------------
\* Failures of the storage (under SpecOutage)

\* The step ends the tick of p, by its response or by a rejection.
TickEndsStep(p) ==
  /\ procs[p].pc \in {"tickFetch", "tickFind", "tickCreate"}
  /\ procs'[p].pc = "idle"

\* C13: a failure met while a selected feed is processed never keeps the tick
\* from processing the others: the tick never throws, and when it returns
\* every selected feed is in exactly one of its two lists, succeeded or failed.
C13_BatchIsolation ==
  [][\A p \in DOMAIN procs :
       TickEndsStep(p) =>
         /\ last'.op = "refreshAll"
         /\ last'.error = "none"
         /\ last'.succeeded \cup last'.failed = last'.selected
         /\ last'.succeeded \cap last'.failed = {}
    ]_vars

\* The health state of a feed document.
Health(fd) ==
  [status |-> fd.status, attempts |-> fd.attempts, errorCount |-> fd.errorCount,
   nextFetchAt |-> fd.nextFetchAt, isActive |-> fd.isActive]

\* C14: when a refresh fails on the storage after a successful fetch, the
\* feed's health state (status, lastError, errorCount, nextFetchAt, isActive)
\* is what it was when the refresh began: for a manual refresh at its answer,
\* for a tick when the feed joins the failed list.
C14_StorageFailureKeepsHealth ==
  [][\A p \in DOMAIN procs :
       /\ procs[p].pc = "refreshCatch" /\ procs[p].error = "storage"
            /\ procs'[p].pc = "idle"
          => Health(feeds'[procs[p].feed]) = Health(procs[p].loaded)
       /\ procs[p].pc = "tickFind" /\ procs'[p].pc = "tickFetch"
            /\ Head(procs[p].todo) \in procs'[p].failed
          => Health(feeds'[Head(procs[p].todo)])
               = Health(procs[p].loaded[Head(procs[p].todo)])
    ]_vars

-----------------------------------------------------------------------------
\* The two transitions, refresh by refresh (under SpecCycle)

\* Feed f has taken the success transition for c new articles.
SuccessTransition(f, c) ==
  /\ feeds'[f].status = "active"
  /\ feeds'[f].lastFetchedAt = now
  /\ feeds'[f].nextFetchAt = now + feeds[f].updateFrequency
  /\ feeds'[f].attempts = 0
  /\ feeds'[f].fetchCount = feeds[f].fetchCount + 1
  /\ feeds'[f].totalArticles = feeds[f].totalArticles + c

\* C15: every refresh that ends successfully with newCount persisted articles
\* sets status = active, lastFetchedAt = now, nextFetchAt = now +
\* updateFrequency, clears lastError (the consecutive failures are back at 0),
\* adds 1 to fetchCount and newCount to totalArticles.
C15_SuccessTransition ==
  [][\A f \in DOMAIN feeds :
       /\ ManualRefreshStep(f) /\ last'.error = "none" =>
            /\ last'.newArticles = Cardinality(articles') - Cardinality(articles)
            /\ SuccessTransition(f, last'.newArticles)
       /\ \A p \in DOMAIN procs :
            TickMarkStep(p, f) => SuccessTransition(f, procs[p].count)
    ]_vars

\* A refresh at 1440 has just persisted two articles for a feed that was in
\* error: the error is cleared and the feed is due one period later.
C15_Witness ==
  \E f \in DOMAIN feeds :
    /\ last.op = "refresh" /\ last.feed = f /\ last.error = "none"
    /\ last.newArticles = 2
    /\ now = 1440
    /\ feeds[f].errorCount = 1 /\ feeds[f].attempts = 0
    /\ feeds[f].status = "active"
    /\ feeds[f].lastFetchedAt = 1440
    /\ feeds[f].nextFetchAt = 1440 + feeds[f].updateFrequency
    /\ feeds[f].fetchCount = 1

\* The step is a refresh of feed f whose fetch fails, manual or in a tick.
FetchFailureStep(f) ==
  \/ ManualRefreshStep(f) /\ last'.error = "fetch"
  \/ \E p \in DOMAIN procs :
       /\ f \in DOMAIN feeds /\ f \in DOMAIN feeds'
       /\ procs[p].pc = "tickFetch" /\ procs'[p].pc = "tickFetch"
       /\ procs[p].todo # <<>> /\ f = Head(procs[p].todo)
       /\ f \in procs'[p].failed

\* C16: every refresh whose fetch fails sets status = error, adds exactly 1 to
\* the consecutive failure count and to errorCount, and leaves fetchCount,
\* totalArticles, averageArticlesPerFetch and lastFetchedAt as they were.
C16_FailureTransition ==
  [][\A f \in DOMAIN feeds :
       FetchFailureStep(f) =>
         /\ feeds'[f].status = "error"
         /\ feeds'[f].attempts = feeds[f].attempts + 1
         /\ feeds'[f].errorCount = feeds[f].errorCount + 1
         /\ feeds'[f].fetchCount = feeds[f].fetchCount
         /\ feeds'[f].totalArticles = feeds[f].totalArticles
         /\ feeds'[f].averageArticlesPerFetch = feeds[f].averageArticlesPerFetch
         /\ feeds'[f].lastFetchedAt = feeds[f].lastFetchedAt
    ]_vars

\* A tick has just failed to fetch a feed that had been fetched before: the
\* feed is in error and keeps the figures of its last fetch.
C16_Witness ==
  \E f \in DOMAIN feeds :
    /\ last.op = "refreshAll" /\ f \in last.failed
    /\ feeds[f].status = "error"
    /\ feeds[f].attempts = 1 /\ feeds[f].errorCount = 1
    /\ feeds[f].fetchCount = 1
    /\ feeds[f].totalArticles = 2
    /\ feeds[f].averageArticlesPerFetch = Ratio(2, 1)
    /\ feeds[f].lastFetchedAt = 0

-----------------------------------------------------------------------------
\* Counters and statistics against the article store

StoredOf(f) == {a \in articles : a.feed = f}

\* C17: when no request is running, the totalArticles of every feed is the
\* number of stored articles of that feed, whatever subscriptions, manual
\* refreshes and ticks came before, the failed ones included.
C17_TotalArticlesMatchesStore ==
  Quiet => \A f \in DOMAIN feeds : feeds[f].totalArticles = Cardinality(StoredOf(f))

\* The statistics of every collection that holds feed f are those of a scan of
\* the storage the step leaves.
StatsFresh(f) ==
  \A c \in DOMAIN colls' :
    (\E k \in DOMAIN colls'[c].feeds : colls'[c].feeds[k] = f)
      => colls'[c] = UpdateStats(colls'[c], feeds', articles')

\* C18: after every successful ingestion of a feed, by a manual refresh or by
\* the tick, the statistics of each collection containing the feed equal a
\* fresh scan of the storage.
C18_StatsFreshAfterIngestion ==
  [][\A f \in DOMAIN feeds :
       \/ ManualRefreshStep(f) /\ last'.error = "none"
       \/ \E p \in DOMAIN procs : TickMarkStep(p, f)
       => StatsFresh(f)
    ]_vars

\* C20: no two stored articles share a link, a guid that is present, or a
\* contentHash that is present, whatever subscriptions, manual refreshes and
\* ticks ran and however a refresh and a tick overlapped.
C20_CorpusUniqueness ==
  \A a, b \in articles :
    a # b =>
      /\ a.link # b.link
      /\ a.guid # 0 => a.guid # b.guid
      /\ a.hash # 0 => a.hash # b.hash

\* A manual refresh found its item absent, the tick created an article with
\* the same key meanwhile, and the insert of the refresh was refused; the store
\* holds articles of both writers.
C20_Witness ==
  /\ procs[1].pc = "refreshCatch" /\ procs[1].error = "duplicate"
  /\ \E a, b \in articles : a.hash # 0 /\ b.hash = 0

-----------------------------------------------------------------------------
\* Content of the stored articles

\* C21: every article stored by a subscription, a manual refresh or a tick
\* carries a contentHash computed before it was stored.
C21_EveryArticleHasHash == \A a \in articles : a.hash # 0

-----------------------------------------------------------------------------
\* Work done by one cycle

\* The step is the answer of addFeed.
SubscribeStep ==
  /\ Quiet /\ procs' = procs
  /\ last'.op = "addFeed" /\ feeds' # feeds

\* The step is the insert of a manual refresh that succeeds.
RefreshInsertStep(p) ==
  /\ procs[p].pc = "refreshFind" /\ procs'[p].pc = "refreshMark"

\* Every item among the first n of the document is stored.
FirstStored(doc, n, arts) ==
  \A i \in 1..Min(n, Len(doc)) : \E a \in arts : a.link = StoredLink(doc[i])

\* C22: a subscription stores at most 20 articles; a refresh cycle, manual or
\* in a tick, stores at most 50 and leaves every item among the first 50 of
\* its document stored.
C22_PerCycleWorkBound ==
  [][/\ SubscribeStep =>
          Cardinality(articles') - Cardinality(articles) <= AddFeedItemLimit
     /\ \A p \in DOMAIN procs :
          RefreshInsertStep(p) =>
            /\ Cardinality(articles') - Cardinality(articles) <= RefreshItemLimit
            /\ FirstStored(procs[p].feedData, RefreshItemLimit, articles')
     /\ \A p \in DOMAIN procs, f \in DOMAIN feeds :
          TickMarkStep(p, f) =>
            /\ procs[p].count <= RefreshItemLimit
            /\ FirstStored(procs[p].feedData, RefreshItemLimit, articles')
    ]_vars

-----------------------------------------------------------------------------
\* Feeds and the collections that hold them

Attached == \A f \in DOMAIN feeds : feeds[f].collections # <<>>

\* What removeFeed(f, c) must leave when c is one of the collections of f.
Removed(f, c) ==
  IF Range(feeds[f].collections) = {c}
  THEN /\ f \notin DOMAIN feeds'
       /\ \A a \in articles' : a.feed # f
  ELSE /\ f \in DOMAIN feeds'
       /\ Cardinality({a \in articles' : a.feed = f}) = Cardinality(StoredOf(f))
       /\ \A a \in StoredOf(f) :
            \E b \in articles' :
              /\ b.feed = f /\ b.link = a.link
              /\ Range(b.collections) = Range(a.collections) \ {c}

-----------------------------------------------------------------------------
\* The existence check before the insert

\* The item is known: its link is the link of a stored article, or it has a
\* guid and that is the guid of a stored article.
Known(arts, item) ==
  \E b \in arts : b.link = item.link \/ (item.guid # 0 /\ b.guid = item.guid)

\* The items among the first n of the document that are not known, in the
\* order of the document.
Candidates(arts, doc, n) == SelectSeq(Take(doc, n), LAMBDA item : ~Known(arts, item))

\* C23: in addFeed, in refreshFeed and in refreshAllFeeds alike, the items
\* that go on to be stored are those of the document that are not known, no
\* more and no fewer.
C23_DedupPreCheck ==
  [][/\ \A url \in MemberFeedIds, c \in DOMAIN colls, doc \in DedupDocs :
          AddFeed(url, c, DefaultUpdateFrequency, Fetched(doc)) =>
            last'.newArticles = Len(Candidates(articles, doc, AddFeedItemLimit))
     /\ \A f \in DOMAIN feeds, doc \in DedupDocs :
          RefreshFeed(f, Fetched(doc)) /\ last'.error = "none" =>
            last'.newArticles = Len(Candidates(articles, doc, RefreshItemLimit))
     /\ \A p \in DOMAIN procs :
          /\ procs[p].pc = "tickFind" /\ procs'[p] # procs[p]
          /\ procs[p].i <= Len(procs[p].items)
          => (procs'[p].pc = "tickCreate"
                <=> ~Known(articles, procs[p].items[procs[p].i]))
    ]_vars

-----------------------------------------------------------------------------
\* The first fetch of a feed

\* C24: the subscription that creates a feed is its first successful fetch:
\* it leaves fetchCount = 1, lastFetchedAt set to the time of the fetch,
\* status = active, totalArticles = the number of articles it stored and
\* nextFetchAt = lastFetchedAt + updateFrequency (1, 4, active and
\* lastFetchedAt + 30 for a feed of frequency 30 whose document has 4 items).
C24_FirstFetch ==
  [][SubscribeStep /\ last'.error = "none" =>
       LET fd == feeds'[last'.feed]
       IN /\ fd.fetchCount = 1
          /\ fd.lastFetchedAt = now
          /\ fd.status = "active"
          /\ fd.totalArticles = Cardinality(articles') - Cardinality(articles)
          /\ fd.nextFetchAt = fd.lastFetchedAt + fd.updateFrequency
    ]_vars

-----------------------------------------------------------------------------
\* Domain events

Emitted(type, f) == \E e \in last'.events : e.type = type /\ e.feed = f

\* C25: a refresh that succeeds emits feed.refreshed with the feed and the
\* number of new articles, one whose fetch fails emits feed.errored, the failure
\* that disables the feed emits feed.disabled; this for the manual refresh and
\* for every feed of a tick.
C25_EventsEmitted ==
  [][/\ \A f \in DOMAIN feeds :
          ManualRefreshStep(f) =>
            /\ last'.error = "none" =>
                 \E e \in last'.events :
                   /\ e.type = "feed.refreshed" /\ e.feed = f
                   /\ e.newArticleCount = last'.newArticles
            /\ last'.error = "fetch" => Emitted("feed.errored", f)
            /\ feeds[f].isActive /\ ~feeds'[f].isActive => Emitted("feed.disabled", f)
     /\ \A p \in DOMAIN procs :
          TickEndsStep(p) =>
            /\ \A f \in last'.succeeded : Emitted("feed.refreshed", f)
            /\ \A f \in last'.failed : Emitted("feed.errored", f)
    ]_vars

-----------------------------------------------------------------------------
\* Consistency of the health fields

HealthConsistent(fd) ==
  /\ fd.status = "error" <=> fd.attempts >= 1
  /\ fd.attempts <= fd.errorCount

\* C27: under markAsFetched, markAsError and resetErrors a feed has
\* status = error exactly when its consecutive failure count is at least 1,
\* that count never exceeds errorCount, and fetchCount and errorCount never
\* decrease.
C27_HealthConsistency ==
  /\ [](\A f \in DOMAIN feeds : HealthConsistent(feeds[f]))
  /\ [][\A f \in DOMAIN feeds \cap DOMAIN feeds' :
          /\ feeds'[f].fetchCount >= feeds[f].fetchCount
          /\ feeds'[f].errorCount >= feeds[f].errorCount
       ]_vars

\* A feed failed, was reset or fetched, and failed again: it is in error with
\* one consecutive failure and more failures than that in all.
C27_Witness ==
  \E f \in DOMAIN feeds :
    /\ feeds[f].status = "error"
    /\ feeds[f].attempts = 1
    /\ feeds[f].errorCount >= 2
    /\ last.op = "refresh" /\ last.error = "fetch"

-----------------------------------------------------------------------------
\* Membership, from both sides

NoRepeat(seq) == Len(seq) = Cardinality(Range(seq))

\* C28: when no request is running, a collection is in the list of a feed
\* exactly when the feed is in the list of the collection, and neither list
\* holds an identifier twice.
C28_MembershipSymmetry ==
  Quiet =>
    /\ \A f \in DOMAIN feeds :
         /\ NoRepeat(feeds[f].collections)
         /\ \A c \in Range(feeds[f].collections) :
              c \in DOMAIN colls /\ f \in Range(colls[c].feeds)
    /\ \A c \in DOMAIN colls :
         /\ NoRepeat(colls[c].feeds)
         /\ \A f \in Range(colls[c].feeds) :
              f \in DOMAIN feeds /\ c \in Range(feeds[f].collections)

-----------------------------------------------------------------------------
\* The unread counter

\* C29: after any markAsRead and markAsUnread calls between refreshes, the
\* unreadArticles of every collection is not negative and is what updateStats
\* would compute: the articles of its feeds that nobody has read; a call that
\* finds the article already read by the user leaves the counter alone.
C29_UnreadCounter ==
  /\ [](\A c \in DOMAIN colls :
          /\ colls[c].unreadArticles >= 0
          /\ colls[c].unreadArticles
               = UpdateStats(colls[c], feeds, articles).unreadArticles)
  /\ [][\A a \in articles, u \in Users :
          MarkAsRead(a, u) /\ u \in a.readBy => colls' = colls
       ]_vars

-----------------------------------------------------------------------------
\* The per-user rate limit

\* The requests of user u let through at the times s .. s + w - 1
PassedIn(u, s, w) == {i \in DOMAIN passed[u] : s <= passed[u][i] /\ passed[u][i] < s + w}

\* C30: in any window of windowMinutes at most maxRequests requests of one
\* user are let through; a request is rejected exactly when the user's own
\* requests let through in the window ending now number maxRequests, it is
\* then answered 429 and not recorded, and a request of one user changes
\* nothing that is kept for another.
C30_PerUserRateLimit ==
  /\ [](\A u \in Users, s \in 0..now :
          Cardinality(PassedIn(u, s, limiter.windowMinutes)) <= limiter.maxRequests)
  /\ [][\A u \in Users, f \in DOMAIN feeds :
          LimitedRefresh(u, f, Fetched(<<>>)) =>
            /\ (passed' = passed)
                 <=> (Cardinality(PassedIn(u, now - limiter.windowMinutes + 1,
                                           limiter.windowMinutes))
                        >= limiter.maxRequests)
            /\ (passed' = passed) =>
                 /\ last'.error = "rateLimited"
                 /\ limiter' = limiter
                 /\ feeds' = feeds
            /\ (passed' # passed) => last'.error # "rateLimited"
            /\ \A v \in Users \ {u} :
                 /\ passed'[v] = passed[v]
                 /\ limiter'.requests[v] = limiter.requests[v]
       ]_vars

\* The route's limit is reached: one user has had RefreshMaxRequests requests
\* let through within the minute and is answered 429.
C30_Witness ==
  /\ last.error = "rateLimited"
  /\ limiter.maxRequests = RefreshMaxRequests
  /\ \E u \in Users : Len(RecentRequests(limiter, u, now)) = RefreshMaxRequests

====
